---------------------------- MODULE Spec2Model ----------------------------
(* Nelson-rule outlier detection (jshaughn/outlier).                        *)
(*                                                                          *)
(* nelson.Data (src/nelson/nelson.go) is the per-series evaluator: a        *)
(* baseline (statistics) and the state of the eight rules.  main.go         *)
(* (src/main.go) polls the backend and feeds every series of a result into  *)
(* the evaluator registered for it in nelsonMap.                            *)
(*                                                                          *)
(* float64 values are modelled exactly.  A sample value is an integer (the  *)
(* test samples are given in tenths: every comparison of the rules is       *)
(* homogeneous in the unit).  The mean is a reduced fraction [n, d].  A     *)
(* deviation is a non-negative root kept by its square, [nan, sq], with     *)
(* nan = TRUE for the NaN that gonum returns for the deviation of a single  *)
(* value (0/0).  Rounding of float64 arithmetic is not modelled.            *)
EXTENDS Integers, Sequences, FiniteSets, TLC

VARIABLES
    heap,       \* the allocated nelson.Data values; a *nelson.Data is an index
    nelsonMap,  \* main.go nelsonMap: series key -> *nelson.Data (0 = absent)
    gor,        \* the poll goroutines: position and locals of each
    scrape,     \* the sink's counter vector: <<rule, key>> -> count
    test,       \* the test function being run and its position ("" = none)
    call,       \* the last call made on an evaluator, with its argument,
                \* its result and the evaluator as it was before the call
    hist,       \* per evaluator: calls and true results since construction
    main        \* main(): its position, the options, whether the sink was
                \* started, and the last error given to checkError

vars == <<heap, nelsonMap, gor, scrape, test, call, hist, main>>

-----------------------------------------------------------------------------
(* Bounds of the model *)

\* AddSample calls made on the evaluator of Spec
MaxCalls == 6
\* Clear calls made on the evaluator of Spec
MaxClears == 1

\* queries made by one poll goroutine
MaxCycles == 2
\* points of one series in one query result
MaxBatch == 2
\* points returned by the backend in all
MaxPoints == 3

\* largest sample size tried by Spec
MaxSampleSize == 2
SampleSizes == 1..MaxSampleSize
\* sample values fed by Spec
Values == {0, 1, 4}

\* samples the run driver of Spec feeds after the baseline
MaxRun == 8
\* sample values fed by the run driver
RunValues == {1, 4}

\* samples the ring driver of Spec feeds after the baseline
MaxRing == 17

\* samples the zigzag driver of Spec feeds after the baseline
MaxZig == 45
\* flat or repeating steps the zigzag driver makes
MaxBreaks == 2

\* points of the one series in every query result of SpecLong
LongBatch == 6

-----------------------------------------------------------------------------
(* float64 *)

Abs(x) == IF x < 0 THEN -x ELSE x

RECURSIVE GCD(_, _)
GCD(a, b) == IF b = 0 THEN a ELSE GCD(b, a % b)

\* the fraction n/d (d > 0), reduced
Rat(n, d) == LET g == GCD(Abs(n), d) IN [n |-> n \div g, d |-> d \div g]

Zero == [n |-> 0, d |-> 1]

\* the float64 zero value of a deviation field
ZeroDev == [nan |-> FALSE, sq |-> Zero]
NaN == [nan |-> TRUE, sq |-> Zero]

\* k * dev for a constant k >= 0
Times(k, dev) ==
    IF dev.nan THEN NaN
    ELSE [nan |-> FALSE, sq |-> Rat(k * k * dev.sq.n, dev.sq.d)]

\* dev == 0.0 (false for NaN)
IsZero(dev) == ~dev.nan /\ dev.sq.n = 0

\* s > mean, s < mean, s == mean for an integer s and a fraction mean
Above(s, mean) == s * mean.d > mean.n
Below(s, mean) == s * mean.d < mean.n
AtMean(s, mean) == s * mean.d = mean.n

\* math.Abs(s-mean) > dev (false for NaN), compared by the squares
Beyond(s, mean, dev) ==
    /\ ~dev.nan
    /\ (s * mean.d - mean.n) * (s * mean.d - mean.n) * dev.sq.d
          > dev.sq.n * mean.d * mean.d

\* math.Abs(s-mean) <= dev (false for NaN)
Within(s, mean, dev) ==
    /\ ~dev.nan
    /\ (s * mean.d - mean.n) * (s * mean.d - mean.n) * dev.sq.d
          <= dev.sq.n * mean.d * mean.d

RECURSIVE Sum(_)
Sum(xs) == IF xs = << >> THEN 0 ELSE Head(xs) + Sum(Tail(xs))

RECURSIVE SumSq(_)
SumSq(xs) == IF xs = << >> THEN 0 ELSE Head(xs) * Head(xs) + SumSq(Tail(xs))

\* stat.Mean(x, nil)
Mean(xs) == Rat(Sum(xs), Len(xs))

\* the deviation of the population: the divisor n in place of n - 1
StdDev_population(xs) ==
    LET n == Len(xs)
    IN [nan |-> FALSE, sq |-> Rat(n * SumSq(xs) - Sum(xs) * Sum(xs), n * n)]

\* stat.StdDev(x, nil): the root of sum((x-mean)^2)/(n-1); 0/0 = NaN for n = 1
StdDev(xs) ==
    LET n == Len(xs)
    IN IF n = 1 THEN NaN
       ELSE [nan |-> FALSE,
             sq |-> Rat(n * SumSq(xs) - Sum(xs) * Sum(xs), n * (n - 1))]

-----------------------------------------------------------------------------
(* Rule catalog *)

MaxSamples == 15

AllRules == <<"Rule1", "Rule2", "Rule3", "Rule4", "Rule5", "Rule6", "Rule7", "Rule8">>
CommonRules == <<"Rule1", "Rule2", "Rule3", "Rule4", "Rule5", "Rule6", "Rule8">>

RuleNames == {AllRules[i] : i \in 1..Len(AllRules)}

Names(rules) == {rules[i] : i \in 1..Len(rules)}

-----------------------------------------------------------------------------
(* statistics *)

Zeros(n) == [i \in 1..n |-> 0]

newStatistics(sampleSize) ==
    [ready |-> FALSE, sampleSize |-> sampleSize, numSamples |-> 0,
     values |-> Zeros(sampleSize), mean |-> Zero, standardDeviation |-> ZeroDev,
     twoDeviations |-> ZeroDev, threeDeviations |-> ZeroDev]

\* statistics.clear: ready is not among the fields it resets
statsClear(s) ==
    [s EXCEPT !.numSamples = 0, !.values = Zeros(s.sampleSize), !.mean = Zero,
              !.standardDeviation = ZeroDev, !.twoDeviations = ZeroDev,
              !.threeDeviations = ZeroDev]

\* statistics.addSample (values is 0-based in the source)
statsAddSample(s, sample) ==
    IF s.ready THEN s
    ELSE LET vals == [s.values EXCEPT ![s.numSamples + 1] = sample.v]
             n == s.numSamples + 1
         IN IF n = s.sampleSize
            THEN [s EXCEPT !.values = vals, !.numSamples = n,
                           !.mean = Mean(vals),
                           !.standardDeviation = StdDev(vals),
                           !.twoDeviations = Times(2, StdDev(vals)),
                           !.threeDeviations = Times(3, StdDev(vals)),
                           !.ready = TRUE]
            ELSE [s EXCEPT !.values = vals, !.numSamples = n]

-----------------------------------------------------------------------------
(* Data *)

\* a nil *float64
NilPtr == [nil |-> TRUE, v |-> 0]
Ptr(v) == [nil |-> FALSE, v |-> v]

\* an empty Go map
EmptyMap == [x \in {} |-> 0]

Put(m, k, x) == [y \in DOMAIN m \cup {k} |-> IF y = k THEN x ELSE m[y]]

\* m[k] of a map[string]int: the zero value for a missing key
Get(m, k) == IF k \in DOMAIN m THEN m[k] ELSE 0

\* NewData that gives every evaluator all the rules
NewData_allRules(m, sampleSize, rules) ==
    [Metric |-> m,
     Rules |-> AllRules,
     Violations |-> EmptyMap,
     ViolationsData |-> << >>,
     stats |-> newStatistics(sampleSize),
     rule2Count |-> 0,
     rule3Count |-> 0,
     rule3PreviousSample |-> NilPtr,
     rule4Count |-> 0,
     rule4PreviousSample |-> NilPtr,
     rule4PreviousDirection |-> "",
     rule5LastThree |-> << >>,
     rule6LastFive |-> << >>,
     rule7Count |-> 0,
     rule8Count |-> 0]

NewData(m, sampleSize, rules) ==
    [Metric |-> m,
     Rules |-> IF rules = << >> THEN AllRules ELSE rules,
     Violations |-> EmptyMap,
     ViolationsData |-> << >>,
     stats |-> newStatistics(sampleSize),
     rule2Count |-> 0,
     rule3Count |-> 0,
     rule3PreviousSample |-> NilPtr,
     rule4Count |-> 0,
     rule4PreviousSample |-> NilPtr,
     rule4PreviousDirection |-> "",
     rule5LastThree |-> << >>,
     rule6LastFive |-> << >>,
     rule7Count |-> 0,
     rule8Count |-> 0]

\* Clear that also puts the rule selection back to every rule
Clear_allRules(d) ==
    [d EXCEPT !.stats = statsClear(d.stats),
              !.Rules = AllRules,
              !.Violations = EmptyMap,
              !.ViolationsData = << >>,
              !.rule2Count = 0,
              !.rule3Count = 0,
              !.rule3PreviousSample = NilPtr,
              !.rule4Count = 0,
              !.rule4PreviousSample = NilPtr,
              !.rule4PreviousDirection = "",
              !.rule5LastThree = << >>,
              !.rule6LastFive = << >>,
              !.rule7Count = 0,
              !.rule8Count = 0]

Clear(d) ==
    [d EXCEPT !.stats = statsClear(d.stats),
              !.Violations = EmptyMap,
              !.ViolationsData = << >>,
              !.rule2Count = 0,
              !.rule3Count = 0,
              !.rule3PreviousSample = NilPtr,
              !.rule4Count = 0,
              !.rule4PreviousSample = NilPtr,
              !.rule4PreviousDirection = "",
              !.rule5LastThree = << >>,
              !.rule6LastFive = << >>,
              !.rule7Count = 0,
              !.rule8Count = 0]

hasViolations(d) == Cardinality(DOMAIN d.Violations) > 0

-----------------------------------------------------------------------------
(* The rules: each takes the evaluator and the sample value and gives the    *)
(* evaluator after the call and the violation it returns.                    *)

Out(d, violation) == [d |-> d, violation |-> violation]

\* rule1 without its guard on a zero deviation
rule1_noZeroGuard(d, s) ==
    Out(d, Beyond(s, d.stats.mean, d.stats.threeDeviations))

\* One point is more than 3 standard deviations from the mean
rule1(d, s) ==
    IF IsZero(d.stats.standardDeviation) THEN Out(d, FALSE)
    ELSE Out(d, Beyond(s, d.stats.mean, d.stats.threeDeviations))

\* rule2 that leaves its counter alone for a sample equal to the mean
rule2_noReset(d, s) ==
    LET c == d.rule2Count
        n == IF Above(s, d.stats.mean) THEN (IF c > 0 THEN c + 1 ELSE 1)
             ELSE IF Below(s, d.stats.mean) THEN (IF c < 0 THEN c - 1 ELSE -1)
             ELSE c
    IN Out([d EXCEPT !.rule2Count = n], Abs(n) >= 9)

\* rule2 that reports a run once, on its ninth sample
rule2_onceAtNine(d, s) ==
    LET c == d.rule2Count
        n == IF Above(s, d.stats.mean) THEN (IF c > 0 THEN c + 1 ELSE 1)
             ELSE IF Below(s, d.stats.mean) THEN (IF c < 0 THEN c - 1 ELSE -1)
             ELSE 0
    IN Out([d EXCEPT !.rule2Count = n], Abs(n) = 9)

\* Nine (or more) points in a row are on the same side of the mean
rule2(d, s) ==
    LET c == d.rule2Count
        n == IF Above(s, d.stats.mean) THEN (IF c > 0 THEN c + 1 ELSE 1)
             ELSE IF Below(s, d.stats.mean) THEN (IF c < 0 THEN c - 1 ELSE -1)
             ELSE 0
    IN Out([d EXCEPT !.rule2Count = n], Abs(n) >= 9)

\* rule3 that keeps no state and reports nothing
rule3_never(d, s) == Out(d, FALSE)

\* rule3 that takes six points, five steps, for a violation
rule3_sixPoints(d, s) ==
    IF d.rule3PreviousSample.nil
    THEN Out([d EXCEPT !.rule3PreviousSample = Ptr(s), !.rule3Count = 0], FALSE)
    ELSE LET c == d.rule3Count
             p == d.rule3PreviousSample.v
             n == IF s > p THEN (IF c > 0 THEN c + 1 ELSE 1)
                  ELSE IF s < p THEN (IF c < 0 THEN c - 1 ELSE -1)
                  ELSE 0
         IN Out([d EXCEPT !.rule3Count = n, !.rule3PreviousSample = Ptr(s)],
                Abs(n) >= 5)

\* Six (or more) points in a row are continually increasing (or decreasing)
rule3(d, s) ==
    IF d.rule3PreviousSample.nil
    THEN Out([d EXCEPT !.rule3PreviousSample = Ptr(s), !.rule3Count = 0], FALSE)
    ELSE LET c == d.rule3Count
             p == d.rule3PreviousSample.v
             n == IF s > p THEN (IF c > 0 THEN c + 1 ELSE 1)
                  ELSE IF s < p THEN (IF c < 0 THEN c - 1 ELSE -1)
                  ELSE 0
         IN Out([d EXCEPT !.rule3Count = n, !.rule3PreviousSample = Ptr(s)],
                Abs(n) >= 6)

\* rule4 that takes a step repeating a direction as the first of a new run
rule4_repeatIsFirst(d, s) ==
    IF d.rule4PreviousSample.nil \/ s = d.rule4PreviousSample.v
    THEN Out([d EXCEPT !.rule4PreviousSample = Ptr(s),
                       !.rule4PreviousDirection = "=",
                       !.rule4Count = 0], FALSE)
    ELSE LET sampleDirection == IF s <= d.rule4PreviousSample.v THEN "<" ELSE ">"
             n == IF sampleDirection = d.rule4PreviousDirection THEN 1
                  ELSE d.rule4Count + 1
         IN Out([d EXCEPT !.rule4Count = n,
                          !.rule4PreviousSample = Ptr(s),
                          !.rule4PreviousDirection = sampleDirection],
                Abs(n) >= 14)

\* rule4 that goes on counting when a direction repeats
rule4_countRepeats(d, s) ==
    IF d.rule4PreviousSample.nil \/ s = d.rule4PreviousSample.v
    THEN Out([d EXCEPT !.rule4PreviousSample = Ptr(s),
                       !.rule4PreviousDirection = "=",
                       !.rule4Count = 0], FALSE)
    ELSE LET sampleDirection == IF s <= d.rule4PreviousSample.v THEN "<" ELSE ">"
             n == d.rule4Count + 1
         IN Out([d EXCEPT !.rule4Count = n,
                          !.rule4PreviousSample = Ptr(s),
                          !.rule4PreviousDirection = sampleDirection],
                Abs(n) >= 14)

\* Fourteen (or more) points in a row alternate in direction
rule4(d, s) ==
    IF d.rule4PreviousSample.nil \/ s = d.rule4PreviousSample.v
    THEN Out([d EXCEPT !.rule4PreviousSample = Ptr(s),
                       !.rule4PreviousDirection = "=",
                       !.rule4Count = 0], FALSE)
    ELSE LET sampleDirection == IF s <= d.rule4PreviousSample.v THEN "<" ELSE ">"
             n == IF sampleDirection = d.rule4PreviousDirection THEN 0
                  ELSE d.rule4Count + 1
         IN Out([d EXCEPT !.rule4Count = n,
                          !.rule4PreviousSample = Ptr(s),
                          !.rule4PreviousDirection = sampleDirection],
                Abs(n) >= 14)

\* the ">", "<" or "" a rule 5 / rule 6 window records for a sample
Classify(s, mean, dev) ==
    IF Beyond(s, mean, dev) THEN (IF Above(s, mean) THEN ">" ELSE "<") ELSE ""

\* PushFront on a list kept to at most n elements
PushFrontMax(l, x, n) ==
    LET pushed == <<x>> \o l
    IN IF Len(pushed) > n THEN SubSeq(pushed, 1, Len(pushed) - 1) ELSE pushed

\* the number of elements of l equal to x
Count(l, x) == Cardinality({i \in 1..Len(l) : l[i] = x})

\* rule5 that records only the samples over 2 deviations from the mean
rule5_skipsInBand(d, s) ==
    IF IsZero(d.stats.standardDeviation) THEN Out(d, FALSE)
    ELSE LET c == Classify(s, d.stats.mean, d.stats.twoDeviations)
             l == IF c = "" THEN d.rule5LastThree
                  ELSE PushFrontMax(d.rule5LastThree, c, 3)
         IN Out([d EXCEPT !.rule5LastThree = l],
                Count(l, ">") >= 2 \/ Count(l, "<") >= 2)

\* rule5 over a window of four
rule5_lastFour(d, s) ==
    IF IsZero(d.stats.standardDeviation) THEN Out(d, FALSE)
    ELSE LET l == PushFrontMax(d.rule5LastThree,
                               Classify(s, d.stats.mean, d.stats.twoDeviations), 4)
         IN Out([d EXCEPT !.rule5LastThree = l],
                Count(l, ">") >= 2 \/ Count(l, "<") >= 2)

\* rule5 without its guard on a zero deviation
rule5_noZeroGuard(d, s) ==
    LET l == PushFrontMax(d.rule5LastThree,
                          Classify(s, d.stats.mean, d.stats.twoDeviations), 3)
    IN Out([d EXCEPT !.rule5LastThree = l],
           Count(l, ">") >= 2 \/ Count(l, "<") >= 2)

\* At least 2 of 3 points in a row are > 2 standard deviations from the mean
\* in the same direction
rule5(d, s) ==
    IF IsZero(d.stats.standardDeviation) THEN Out(d, FALSE)
    ELSE LET l == PushFrontMax(d.rule5LastThree,
                               Classify(s, d.stats.mean, d.stats.twoDeviations), 3)
         IN Out([d EXCEPT !.rule5LastThree = l],
                Count(l, ">") >= 2 \/ Count(l, "<") >= 2)

\* rule6 that takes three of the five for a violation
rule6_threeOfFive(d, s) ==
    IF IsZero(d.stats.standardDeviation) THEN Out(d, FALSE)
    ELSE LET l == PushFrontMax(d.rule6LastFive,
                               Classify(s, d.stats.mean, d.stats.standardDeviation), 5)
         IN Out([d EXCEPT !.rule6LastFive = l],
                Count(l, ">") >= 3 \/ Count(l, "<") >= 3)

\* At least 4 of 5 points in a row are > 1 standard deviation from the mean
\* in the same direction
rule6(d, s) ==
    IF IsZero(d.stats.standardDeviation) THEN Out(d, FALSE)
    ELSE LET l == PushFrontMax(d.rule6LastFive,
                               Classify(s, d.stats.mean, d.stats.standardDeviation), 5)
         IN Out([d EXCEPT !.rule6LastFive = l],
                Count(l, ">") >= 4 \/ Count(l, "<") >= 4)

\* rule7 that leaves its counter alone for a sample over 1 deviation from
\* the mean
rule7_noResetBeyond(d, s) ==
    IF IsZero(d.stats.standardDeviation) THEN Out(d, FALSE)
    ELSE IF AtMean(s, d.stats.mean) THEN Out([d EXCEPT !.rule7Count = 0], FALSE)
    ELSE LET n == IF Within(s, d.stats.mean, d.stats.standardDeviation)
                  THEN d.rule7Count + 1 ELSE d.rule7Count
         IN Out([d EXCEPT !.rule7Count = n], n >= 15)

\* rule7 that counts a sample equal to the mean with the others within 1
\* deviation
rule7_countMean(d, s) ==
    IF IsZero(d.stats.standardDeviation) THEN Out(d, FALSE)
    ELSE LET n == IF Within(s, d.stats.mean, d.stats.standardDeviation)
                  THEN d.rule7Count + 1 ELSE 0
         IN Out([d EXCEPT !.rule7Count = n], n >= 15)

\* Fifteen points in a row are all within 1 standard deviation of the mean
rule7(d, s) ==
    IF IsZero(d.stats.standardDeviation) THEN Out(d, FALSE)
    ELSE IF AtMean(s, d.stats.mean) THEN Out([d EXCEPT !.rule7Count = 0], FALSE)
    ELSE LET n == IF Within(s, d.stats.mean, d.stats.standardDeviation)
                  THEN d.rule7Count + 1 ELSE 0
         IN Out([d EXCEPT !.rule7Count = n], n >= 15)

\* rule8 that keeps its counter over a sample within 1 deviation
rule8_noReset(d, s) ==
    IF IsZero(d.stats.standardDeviation) THEN Out(d, FALSE)
    ELSE LET n == IF Beyond(s, d.stats.mean, d.stats.standardDeviation)
                  THEN d.rule8Count + 1 ELSE d.rule8Count
         IN Out([d EXCEPT !.rule8Count = n], n >= 8)

\* Eight points in a row exist, but none within 1 standard deviation of the mean
rule8(d, s) ==
    IF IsZero(d.stats.standardDeviation) THEN Out(d, FALSE)
    ELSE LET n == IF Beyond(s, d.stats.mean, d.stats.standardDeviation)
                  THEN d.rule8Count + 1 ELSE 0
         IN Out([d EXCEPT !.rule8Count = n], n >= 8)

\* Rule.f: the method a rule name is bound to
RuleF(name, d, s) ==
    CASE name = "Rule1" -> rule1(d, s)
      [] name = "Rule2" -> rule2(d, s)
      [] name = "Rule3" -> rule3(d, s)
      [] name = "Rule4" -> rule4(d, s)
      [] name = "Rule5" -> rule5(d, s)
      [] name = "Rule6" -> rule6(d, s)
      [] name = "Rule7" -> rule7(d, s)
      [] name = "Rule8" -> rule8(d, s)

-----------------------------------------------------------------------------
(* AddSample *)

\* a nil map[string]bool, and a map made by evaluate
NilResult == [nil |-> TRUE, m |-> EmptyMap]
Result(m) == [nil |-> FALSE, m |-> m]

\* the loop of evaluate with the tally incremented for every rule evaluated
RECURSIVE evaluateRules_tallyAll(_, _, _, _)
evaluateRules_tallyAll(d, s, i, result) ==
    IF i > Len(d.Rules) THEN [d |-> d, result |-> Result(result)]
    ELSE LET r == d.Rules[i]
             o == RuleF(r, d, s.v)
             d1 == [o.d EXCEPT !.Violations = Put(@, r, Get(@, r) + 1)]
         IN evaluateRules_tallyAll(d1, s, i + 1, Put(result, r, o.violation))

\* the loop of evaluate with only the violations entered in the result
RECURSIVE evaluateRules_onlyTrue(_, _, _, _)
evaluateRules_onlyTrue(d, s, i, result) ==
    IF i > Len(d.Rules) THEN [d |-> d, result |-> Result(result)]
    ELSE LET r == d.Rules[i]
             o == RuleF(r, d, s.v)
             d1 == IF o.violation
                   THEN [o.d EXCEPT !.Violations = Put(@, r, Get(@, r) + 1)]
                   ELSE o.d
         IN evaluateRules_onlyTrue(d1, s, i + 1,
                IF o.violation THEN Put(result, r, TRUE) ELSE result)

\* the loop of evaluate left at the first violation
RECURSIVE evaluateRules_shortCircuit(_, _, _, _)
evaluateRules_shortCircuit(d, s, i, result) ==
    IF i > Len(d.Rules) THEN [d |-> d, result |-> Result(result)]
    ELSE LET r == d.Rules[i]
             o == RuleF(r, d, s.v)
         IN IF o.violation
            THEN [d |-> [o.d EXCEPT !.Violations = Put(@, r, Get(@, r) + 1)],
                  result |-> Result(Put(result, r, TRUE))]
            ELSE evaluateRules_shortCircuit(o.d, s, i + 1, Put(result, r, FALSE))

\* the loop of evaluate over d.Rules, from rule i on
RECURSIVE evaluateRules(_, _, _, _)
evaluateRules(d, s, i, result) ==
    IF i > Len(d.Rules) THEN [d |-> d, result |-> Result(result)]
    ELSE LET r == d.Rules[i]
             o == RuleF(r, d, s.v)
             d1 == IF o.violation
                   THEN [o.d EXCEPT !.Violations = Put(@, r, Get(@, r) + 1)]
                   ELSE o.d
         IN evaluateRules(d1, s, i + 1, Put(result, r, o.violation))

\* evaluate that never removes the oldest sample of ViolationsData
evaluate_noEviction(d, s) ==
    evaluateRules([d EXCEPT !.ViolationsData = <<s>> \o @], s, 1, EmptyMap)

evaluate(d, s) ==
    evaluateRules([d EXCEPT !.ViolationsData = PushFrontMax(@, s, MaxSamples)],
                  s, 1, EmptyMap)

\* AddSample that adds to the baseline first and evaluates the sample that
\* completes it
AddSample_evaluateLast(d, s) ==
    LET d1 == [d EXCEPT !.stats = statsAddSample(@, s)]
    IN IF d1.stats.ready THEN evaluate(d1, s)
       ELSE [d |-> d1, result |-> NilResult]

\* AddSample that lets the mean of a ready baseline follow the samples
AddSample_drift(d, s) ==
    IF d.stats.ready
    THEN LET o == evaluate(d, s)
         IN [o EXCEPT !.d.stats.mean =
                Rat(@.n + s.v * @.d, 2 * @.d)]
    ELSE [d |-> [d EXCEPT !.stats = statsAddSample(@, s)], result |-> NilResult]

AddSample(d, s) ==
    IF d.stats.ready THEN evaluate(d, s)
    ELSE [d |-> [d EXCEPT !.stats = statsAddSample(@, s)], result |-> NilResult]

-----------------------------------------------------------------------------
(* The tests of nelson_test.go, values in tenths *)

Sample(t, v) == [t |-> t, v |-> v]

\* the samples of a test, at times t0, t0 + 1000, ... when no time is given
Samples(t0, vs) == [i \in 1..Len(vs) |-> Sample(t0 + 1000 * (i - 1), vs[i])]

statSamples == Samples(100000, <<60, 70, 80, 90, 100, 100, 110, 120, 130, 140>>)

TestNames ==
    {"TestStats", "TestRule1", "TestRule2", "TestRule3_1", "TestRule3_2",
     "TestRule4", "TestRule5", "TestRule6", "TestRule7", "TestRule8"}

testSamples(name) ==
    CASE name = "TestStats" -> << >>
      [] name = "TestRule1" -> Samples(200000, <<90, 100, 180, 110>>)
      [] name = "TestRule2" ->
           Samples(200000, <<90, 110, 100, 110, 110, 110, 110, 110, 110, 110,
                             110, 110, 80>>)
      [] name = "TestRule3_1" ->
           Samples(200000, <<93, 74, 99, 100, 101, 102, 103, 104, 81>>)
      [] name = "TestRule3_2" ->
           Samples(200000, <<93, 104, 103, 102, 101, 100, 99, 74, 81>>)
      [] name = "TestRule4" ->
           Samples(200000, <<95, 126, 95, 105, 95, 105, 95, 105, 95, 105, 95,
                             105, 95, 105, 98>>)
      [] name = "TestRule5" -> Samples(200000, <<40, 160, 40>>)
      [] name = "TestRule6" ->
           <<Sample(200000, 70), Sample(201000, 70), Sample(202000, 40),
             Sample(202000, 160), Sample(203000, 70)>>
      [] name = "TestRule7" ->
           Samples(200000, <<95, 115, 115, 95, 95, 115, 115, 95, 95, 115, 115,
                             95, 95>>)
             \o <<Sample(213000, 115), Sample(213000, 115)>>
      [] name = "TestRule8" ->
           Samples(200000, <<70, 130, 70, 130, 70, 130, 70, 130>>)

\* all the samples a test feeds: the baseline, then its own
Script(name) == statSamples \o testSamples(name)

\* no test is running
NoTest == [name |-> "", pos |-> 0]

\* no test is running and the run driver feeds the evaluator
RunTest == [name |-> "run", pos |-> 0]

\* no test is running and the ring driver feeds the evaluator
RingTest == [name |-> "ring", pos |-> 0]

\* no test is running and the pair driver feeds two evaluators
PairTest == [name |-> "pair", pos |-> 0]

\* no test is running and the zigzag driver feeds the evaluator; pos counts
\* the flat and the repeating steps it made
ZigTest == [name |-> "zigzag", pos |-> 0]

-----------------------------------------------------------------------------
(* Runs of samples *)

\* the number of most recent elements of bs that are TRUE without a break
TailRun(bs) ==
    LET breaks == {i \in 1..Len(bs) : ~bs[i]}
    IN IF breaks = {} THEN Len(bs)
       ELSE Len(bs) - (CHOOSE i \in breaks : \A j \in breaks : j <= i)

Direction(from, to) == IF to > from THEN ">" ELSE IF to < from THEN "<" ELSE "="

\* the steps between consecutive samples of xs: the direction of each and
\* the direction of the step before it ("=" before the first)
Steps(xs) ==
    [i \in 1..(Len(xs) - 1) |->
        [dir |-> Direction(xs[i].v, xs[i + 1].v),
         prev |-> IF i = 1 THEN "=" ELSE Direction(xs[i - 1].v, xs[i].v)]]

\* the step neither is flat nor repeats the direction of the step before it
Turns(step) == step.dir # "=" /\ step.dir # step.prev

\* the number of most recent steps between the samples of xs that all turn
Alternating(xs) ==
    LET steps == Steps(xs) IN TailRun([i \in 1..Len(steps) |-> Turns(steps[i])])

\* how the steps counted by Alternating(xs) began: with the first sample,
\* after a flat step, or after a step that repeated a direction
Began(xs) ==
    LET steps == Steps(xs)
        last == Len(steps) - Alternating(xs)
    IN IF last = 0 THEN "first"
       ELSE IF steps[last].dir = "=" THEN "flat" ELSE "repeat"

\* the values the zigzag driver may feed next to an evaluator of sample size
\* n that was fed xs, having made `breaks` flat or repeating steps: the
\* baseline 0, 4, ...; then the mean; then one up or one down, a turn while
\* 1 to 13 steps alternate, a flat or repeating step after 14
ZigValues(n, xs, breaks) ==
    IF Len(xs) < n THEN {4 * Len(xs)}
    ELSE IF Len(xs) = n THEN {2 * (n - 1)}
    ELSE LET ev == SubSeq(xs, n + 1, Len(xs))
             p == ev[Len(ev)].v
             dir == IF Len(ev) = 1 THEN "=" ELSE Direction(ev[Len(ev) - 1].v, p)
             run == Alternating(ev)
             turn == IF dir = ">" THEN {p - 1}
                     ELSE IF dir = "<" THEN {p + 1} ELSE {p - 1, p + 1}
             break == IF breaks >= MaxBreaks THEN {}
                      ELSE IF dir = ">" THEN {p, p + 1}
                      ELSE IF dir = "<" THEN {p, p - 1} ELSE {p}
         IN IF run = 0 THEN turn \cup break
            ELSE IF run < 14 THEN turn
            ELSE break

\* the value v, fed after xs to an evaluator of sample size n, makes a flat
\* or a repeating step
ZigBreak(n, xs, v) ==
    /\ Len(xs) > n
    /\ LET steps == Steps(Append(SubSeq(xs, n + 1, Len(xs)), Sample(0, v)))
       IN ~Turns(steps[Len(steps)])

-----------------------------------------------------------------------------
(* Calls on an evaluator, and what is recorded of them *)

NoHits == [r \in RuleNames |-> 0]

\* of a new evaluator: the rules NewData was given (<< >> = none), and since
\* construction or the last Clear the samples AddSample was called with, of
\* which the first `base` went to the baseline
NewHist(rules) ==
    [calls |-> 0, clears |-> 0, hits |-> NoHits, rules |-> rules,
     fed |-> << >>, base |-> 0]

NoCall == [op |-> "", d |-> 0, s |-> Sample(0, 0), result |-> NilResult,
           before |-> NewData("", 1, << >>)]

\* the true results of a call, added to the count of each rule
AddHits(hits, result) ==
    [r \in RuleNames |->
        IF r \in DOMAIN result.m /\ result.m[r] THEN hits[r] + 1 ELSE hits[r]]

\* d.AddSample(s) with the list of recent samples kept in one place for
\* every evaluator
CallAddSampleFrom_sharedData(a, s, d0) ==
    LET o == AddSample(d0, s)
    IN /\ heap' = [b \in DOMAIN heap |->
                      IF b = a THEN o.d
                      ELSE [heap[b] EXCEPT !.ViolationsData = o.d.ViolationsData]]
       /\ call' = [op |-> "AddSample", d |-> a, s |-> s, result |-> o.result,
                   before |-> d0]
       /\ hist' = [hist EXCEPT ![a].calls = @ + 1,
                               ![a].hits = AddHits(@, o.result),
                               ![a].fed = Append(@, s),
                               ![a].base = IF o.result.nil THEN @ + 1 ELSE @]

\* d.AddSample(s) on the evaluator at address a, which the call read as d0
CallAddSampleFrom(a, s, d0) ==
    LET o == AddSample(d0, s)
    IN /\ heap' = [heap EXCEPT ![a] = o.d]
       /\ call' = [op |-> "AddSample", d |-> a, s |-> s, result |-> o.result,
                   before |-> d0]
       /\ hist' = [hist EXCEPT ![a].calls = @ + 1,
                               ![a].hits = AddHits(@, o.result),
                               ![a].fed = Append(@, s),
                               ![a].base = IF o.result.nil THEN @ + 1 ELSE @]

\* d.AddSample(s) on the evaluator at address a
CallAddSample(a, s) == CallAddSampleFrom(a, s, heap[a])

\* d.Clear() on the evaluator at address a
CallClear(a) ==
    /\ heap' = [heap EXCEPT ![a] = Clear(heap[a])]
    /\ call' = [op |-> "Clear", d |-> a, s |-> Sample(0, 0), result |-> NilResult,
                before |-> heap[a]]
    /\ hist' = [hist EXCEPT ![a].clears = @ + 1, ![a].fed = << >>,
                            ![a].base = 0]

-----------------------------------------------------------------------------
(* main.go: the backend, the registry and the poll goroutines *)

\* a second expression selecting a series of the first
tsExpressions_overlapping == <<"response_time", "response_time{variance=stable}">>

tsExpressions == <<"response_time">>

\* the series of the test gauge, as s.Metric.String() renders them
Stable == "response_time{variance=stable}"
Wild == "response_time{variance=wild}"

\* the series in the order the backend returns them
KeyOrder == <<Stable, Wild>>
Keys == {KeyOrder[i] : i \in 1..Len(KeyOrder)}

\* the series an expression selects
KeysOf(ts) ==
    CASE ts = "response_time" -> {Stable, Wild}
      [] ts = "response_time{variance=stable}" -> {Stable}
      [] OTHER -> {}

\* values of the points the backend returns
PollValues == {0, 1, 4}

\* xs with the elements at i and j exchanged
Swap(xs, i, j) == [xs EXCEPT ![i] = xs[j], ![j] = xs[i]]

\* the inner loop of insertion sort: xs[j] moves down while it is less
RECURSIVE SortDown(_, _)
SortDown(xs, j) ==
    IF j > 1 /\ xs[j].t < xs[j - 1].t THEN SortDown(Swap(xs, j, j - 1), j - 1)
    ELSE xs

\* sort.Slice by Time(), as the insertion sort it runs on a short slice
RECURSIVE SortSlice(_, _)
SortSlice(xs, i) ==
    IF i > Len(xs) THEN xs ELSE SortSlice(SortDown(xs, i), i + 1)

\* toSamplePairs that leaves the points in the order received
toSamplePairs_unsorted(in, sorted) == in

toSamplePairs(in, sorted) == IF sorted THEN SortSlice(in, 2) ELSE in

\* the permutations of 1..n
Perms(n) == {f \in [1..n -> 1..n] : \A i, j \in 1..n : f[i] = f[j] => i = j}

\* the values of a series in a result: n points at increasing times after t0,
\* in any order
Batches(t0, n) ==
    {[i \in 1..n |-> Sample(t0 + f[i], vs[f[i]])] :
        vs \in [1..n -> PollValues], f \in Perms(n)}

\* a sample stream of a matrix
Stream(k, values) == [Metric |-> k, Values |-> values]

\* the matrices over the series ks, from series i of KeyOrder on, of at most
\* n points in all: every series absent or with 1..MaxBatch points
RECURSIVE Matrices(_, _, _, _)
Matrices(ks, i, t0, n) ==
    IF i > Len(KeyOrder) THEN {<< >>}
    ELSE LET rest(m) == Matrices(ks, i + 1, t0, m)
         IN rest(n) \cup
            (IF KeyOrder[i] \notin ks THEN {}
             ELSE UNION {{<<Stream(KeyOrder[i], b)>> \o r : r \in rest(n - len),
                                                          b \in Batches(t0, len)} :
                         len \in 1..(IF n < MaxBatch THEN n ELSE MaxBatch)})

RECURSIVE SumOver(_, _)
SumOver(f, i) == IF i > Len(f) THEN 0 ELSE f[i].polled + SumOver(f, i + 1)

\* the points the backend has returned so far
Polled == SumOver(gor, 1)

\* the locals of a poll goroutine
NewGor(ts, o) ==
    [pc |-> "query", ts |-> ts, o |-> o, cycle |-> 0, polled |-> 0,
     matrix |-> << >>, k |-> "", d |-> 0, in |-> << >>, out |-> << >>,
     fed |-> << >>, sp |-> Sample(0, 0), snap |-> NoCall.before]

\* a nil error
NoError == ""

\* the values of the server option and of the sampleSize option
Servers == {"", "http://localhost:9090"}
OptionSets == [server : Servers, sampleSize : {-1, 0} \cup SampleSizes]

\* validateOptions that checks the server alone
validateOptions_serverOnly(options) ==
    IF options.server = "" THEN "Server must be set" ELSE NoError

validateOptions(options) ==
    IF options.sampleSize <= 0 THEN "SampleSize must be > 0"
    ELSE IF options.server = "" THEN "Server must be set"
    ELSE NoError

\* checkError(err): os.Exit(1) unless err is nil, else on to pc
checkError(err, pc) == IF err # NoError THEN "exit" ELSE pc

\* main() is not running, and main() at its start
NoMain ==
    [pc |-> "", options |-> [server |-> "", sampleSize |-> 0], ep |-> FALSE,
     err |-> NoError]
NewMain(options) ==
    [pc |-> "validate", options |-> options, ep |-> FALSE, err |-> NoError]

\* no evaluator, no goroutine, nothing in the sink
InitEmpty ==
    /\ nelsonMap = [k \in Keys |-> 0]
    /\ scrape = [x \in RuleNames \X Keys |-> 0]
    /\ call = NoCall
    /\ test = NoTest
    /\ heap = << >>
    /\ hist = << >>

\* main after the goroutines are started, one for each expression, with the
\* sampleSize option one of sizes
InitProgram(exprs, sizes) ==
    /\ InitEmpty
    /\ \E n \in sizes :
          LET o == [server |-> "http://localhost:9090", sampleSize |-> n]
          IN /\ main = [NewMain(o) EXCEPT !.pc = "wait", !.ep = TRUE]
             /\ gor = [g \in 1..Len(exprs) |-> NewGor(exprs[g], o)]

\* main: checkError(validateOptions(options))
Validate ==
    /\ main.pc = "validate"
    /\ main' = [main EXCEPT !.err = validateOptions(main.options),
                            !.pc = checkError(validateOptions(main.options),
                                              "start")]
    /\ UNCHANGED <<heap, nelsonMap, gor, scrape, test, call, hist>>

\* main: go ep.Start(), api.NewClient, which may fail, and a goroutine for
\* each of tsExpressions; then wg.Wait()
Start ==
    /\ main.pc = "start"
    /\ \E err \in {NoError, "client"} :
          /\ main' = [main EXCEPT !.ep = TRUE, !.err = err,
                                  !.pc = checkError(err, "wait")]
          /\ gor' = IF err # NoError THEN gor
                    ELSE [g \in 1..Len(tsExpressions) |->
                             NewGor(tsExpressions[g], main.options)]
    /\ UNCHANGED <<heap, nelsonMap, scrape, test, call, hist>>

\* api.Query returns a range vector
QueryMatrix(g) ==
    /\ gor[g].pc = "query"
    /\ gor[g].cycle < MaxCycles
    /\ \E m \in Matrices(KeysOf(gor[g].ts), 1, gor[g].cycle * MaxBatch,
                         MaxPoints - Polled) :
          LET n == Sum([i \in 1..Len(m) |-> Len(m[i].Values)])
          IN gor' = [gor EXCEPT ![g].matrix = m,
                                ![g].polled = @ + n,
                                ![g].pc = IF m = << >> THEN "sleep" ELSE "load"]
    /\ UNCHANGED <<heap, nelsonMap, scrape, test, call, hist, main>>

\* api.Query returns an instant vector: printed, nothing is fed
QueryVector(g) ==
    /\ gor[g].pc = "query"
    /\ gor[g].cycle < MaxCycles
    /\ gor' = [gor EXCEPT ![g].pc = "sleep"]
    /\ UNCHANGED <<heap, nelsonMap, scrape, test, call, hist, main>>

\* api.Query returns an error that is printed, and the query is made again
\* after the sleep
QueryError_retry(g) ==
    /\ gor[g].pc = "query"
    /\ gor[g].cycle < MaxCycles
    /\ gor' = [gor EXCEPT ![g].pc = "sleep"]
    /\ main' = [main EXCEPT !.err = "query"]
    /\ UNCHANGED <<heap, nelsonMap, scrape, test, call, hist>>

\* api.Query returns an error: checkError exits the process
QueryError(g) ==
    /\ gor[g].pc = "query"
    /\ gor[g].cycle < MaxCycles
    /\ gor' = [h \in DOMAIN gor |-> [gor[h] EXCEPT !.pc = "exit"]]
    /\ main' = [main EXCEPT !.err = "query", !.pc = checkError("query", @)]
    /\ UNCHANGED <<heap, nelsonMap, scrape, test, call, hist>>

\* processSampleStream that takes every key for one not found
Load_alwaysNew(g) ==
    /\ gor[g].pc = "load"
    /\ gor' = [gor EXCEPT ![g].k = Head(gor[g].matrix).Metric, ![g].pc = "store"]
    /\ UNCHANGED <<heap, nelsonMap, scrape, test, call, hist, main>>

\* processSampleStream up to the loop, when the key is found:
\* nelsonMap.Load(k), then toSamplePairs(s.Values, true)
Load(g) ==
    /\ gor[g].pc = "load"
    /\ LET s == Head(gor[g].matrix)
           k == s.Metric
       IN IF nelsonMap[k] = 0
          THEN gor' = [gor EXCEPT ![g].k = k, ![g].pc = "store"]
          ELSE gor' = [gor EXCEPT ![g].k = k, ![g].d = nelsonMap[k],
                                  ![g].in = s.Values,
                                  ![g].out = toSamplePairs(s.Values, TRUE),
                                  ![g].fed = << >>,
                                  ![g].pc = "range"]
    /\ UNCHANGED <<heap, nelsonMap, scrape, test, call, hist, main>>

\* processSampleStream when the key was not found: NewData and
\* nelsonMap.Store(k, d), then toSamplePairs(s.Values, true)
Store(g) ==
    /\ gor[g].pc = "store"
    /\ LET s == Head(gor[g].matrix)
           d == Len(heap) + 1
       IN /\ heap' = Append(heap, NewData(s.Metric, gor[g].o.sampleSize, CommonRules))
          /\ hist' = Append(hist, NewHist(CommonRules))
          /\ nelsonMap' = [nelsonMap EXCEPT ![gor[g].k] = d]
          /\ gor' = [gor EXCEPT ![g].d = d,
                                ![g].in = s.Values,
                                ![g].out = toSamplePairs(s.Values, TRUE),
                                ![g].fed = << >>,
                                ![g].pc = "range"]
    /\ UNCHANGED <<scrape, test, call, main>>

\* the loop takes the next sample and calls d.AddSample(sp)
Begin(g) ==
    /\ gor[g].pc = "range"
    /\ gor[g].out # << >>
    /\ gor' = [gor EXCEPT ![g].sp = Head(gor[g].out),
                          ![g].out = Tail(gor[g].out),
                          ![g].snap = heap[gor[g].d],
                          ![g].pc = "adding"]
    /\ UNCHANGED <<heap, nelsonMap, scrape, test, call, hist, main>>

\* ep.Add for every entry of violations, the false ones included
Add_everyEntry(sink, violations, key) ==
    [x \in DOMAIN sink |->
        IF x[2] = key /\ x[1] \in DOMAIN violations.m
        THEN sink[x] + 1 ELSE sink[x]]

\* ep.Add(k, s.Metric.String(), 1) for every true entry of violations
Add(sink, violations, key) ==
    [x \in DOMAIN sink |->
        IF x[2] = key /\ x[1] \in DOMAIN violations.m /\ violations.m[x[1]]
        THEN sink[x] + 1 ELSE sink[x]]

\* d.AddSample(sp) returns and its violations go to the sink.  The call is
\* not atomic: when another goroutine wrote the evaluator since the call
\* began (a data race), the call may have worked on what it read then.
Return(g) ==
    /\ gor[g].pc = "adding"
    /\ \E d0 \in {heap[gor[g].d], gor[g].snap} :
          /\ CallAddSampleFrom(gor[g].d, gor[g].sp, d0)
          /\ scrape' = Add(scrape, AddSample(d0, gor[g].sp).result, gor[g].k)
    /\ gor' = [gor EXCEPT ![g].fed = Append(@, gor[g].sp),
                          ![g].snap = NoCall.before,
                          ![g].pc = "range"]
    /\ UNCHANGED <<nelsonMap, test, main>>

\* the loop is over: the next stream of the matrix, or the sleep
Done(g) ==
    /\ gor[g].pc = "range"
    /\ gor[g].out = << >>
    /\ gor' = [gor EXCEPT ![g].matrix = Tail(@),
                          ![g].k = "", ![g].d = 0,
                          ![g].in = << >>, ![g].fed = << >>,
                          ![g].pc = IF Tail(gor[g].matrix) = << >>
                                    THEN "sleep" ELSE "load"]
    /\ UNCHANGED <<heap, nelsonMap, scrape, test, call, hist, main>>

\* time.Sleep(o.interval), then the next query
Sleep(g) ==
    /\ gor[g].pc = "sleep"
    /\ gor' = [gor EXCEPT ![g].cycle = @ + 1, ![g].pc = "query"]
    /\ UNCHANGED <<heap, nelsonMap, scrape, test, call, hist, main>>

\* TSExpression.process: a step of any of the goroutines
process ==
    \/ \E g \in DOMAIN gor : QueryMatrix(g)
    \/ \E g \in DOMAIN gor : QueryVector(g)
    \/ \E g \in DOMAIN gor : QueryError(g)
    \/ \E g \in DOMAIN gor : Load(g)
    \/ \E g \in DOMAIN gor : Store(g)
    \/ \E g \in DOMAIN gor : Begin(g)
    \/ \E g \in DOMAIN gor : Return(g)
    \/ \E g \in DOMAIN gor : Done(g)
    \/ \E g \in DOMAIN gor : Sleep(g)

\* the program as built, from the start of main with any options
InitPoll ==
    /\ InitEmpty
    /\ gor = << >>
    /\ \E o \in OptionSets : main = NewMain(o)

NextPoll == Validate \/ Start \/ process

SpecPoll == InitPoll /\ [][NextPoll]_vars

\* two goroutines whose expressions select the same series: the concurrent
\* lookups of one key that the registry is specified for
racingExpressions == <<"response_time", "response_time{variance=stable}">>

InitRace == InitProgram(racingExpressions, {1})

NextRace == process

SpecRace == InitRace /\ [][NextRace]_vars

\* api.Query returns a range vector of one series with LongBatch points in
\* time order, every value 4 but for at most one 1
QueryLong(g) ==
    /\ gor[g].pc = "query"
    /\ gor[g].cycle < MaxCycles
    /\ \E j \in 0..LongBatch :
          gor' = [gor EXCEPT
                    ![g].matrix =
                        <<Stream(Stable,
                                 [i \in 1..LongBatch |->
                                     Sample(gor[g].cycle * LongBatch + i,
                                            IF i = j THEN 1 ELSE 4)])>>,
                    ![g].polled = @ + LongBatch,
                    ![g].pc = "load"]
    /\ UNCHANGED <<heap, nelsonMap, scrape, test, call, hist, main>>

\* the program as built, started with valid options, with a backend that
\* returns long batches of one series
InitLong == InitProgram(tsExpressions, SampleSizes)

NextLong ==
    \/ \E g \in DOMAIN gor : QueryLong(g)
    \/ \E g \in DOMAIN gor : Load(g)
    \/ \E g \in DOMAIN gor : Store(g)
    \/ \E g \in DOMAIN gor : Begin(g)
    \/ \E g \in DOMAIN gor : Return(g)
    \/ \E g \in DOMAIN gor : Done(g)
    \/ \E g \in DOMAIN gor : Sleep(g)

SpecLong == InitLong /\ [][NextLong]_vars

-----------------------------------------------------------------------------
(* Spec: one evaluator, driven either freely (any values, Clear at any      *)
(* time), or by one of the tests, or by long runs of two values, or by more *)
(* samples than ViolationsData holds; or there are two evaluators, fed and   *)
(* cleared in any order; or by runs of steps that alternate in direction.    *)

InitIdle ==
    /\ nelsonMap = [k \in Keys |-> 0]
    /\ gor = << >>
    /\ scrape = [x \in RuleNames \X Keys |-> 0]
    /\ call = NoCall
    /\ main = NoMain

Init ==
    /\ InitIdle
    /\ \/ /\ test = NoTest
          /\ \E n \in SampleSizes, rules \in {<< >>, CommonRules} :
                /\ heap = <<NewData("metric", n, rules)>>
                /\ hist = <<NewHist(rules)>>
       \/ /\ \E name \in TestNames : test = [name |-> name, pos |-> 0]
          /\ heap = <<NewData("test-metric", 10, << >>)>>
          /\ hist = <<NewHist(<< >>)>>
       \/ /\ test = RunTest
          /\ heap = <<NewData("metric", 3, << >>)>>
          /\ hist = <<NewHist(<< >>)>>
       \/ /\ test = RingTest
          /\ \E n \in SampleSizes, rules \in {<< >>, CommonRules} :
                /\ heap = <<NewData("metric", n, rules)>>
                /\ hist = <<NewHist(rules)>>
       \/ /\ test = ZigTest
          /\ heap = <<NewData("metric", 2, << >>)>>
          /\ hist = <<NewHist(<< >>)>>
       \/ /\ test = PairTest
          /\ heap = <<NewData(Stable, 1, CommonRules), NewData(Wild, 1, CommonRules)>>
          /\ hist = <<NewHist(CommonRules), NewHist(CommonRules)>>

\* the free driver feeds a sample of any value, in ascending time order
FeedSample ==
    /\ test = NoTest
    /\ hist[1].calls < MaxCalls
    /\ \E v \in Values : CallAddSample(1, Sample(hist[1].calls + 1, v))
    /\ UNCHANGED <<nelsonMap, gor, scrape, test, main>>

\* the free driver clears the evaluator
FeedClear ==
    /\ test = NoTest
    /\ hist[1].clears < MaxClears
    /\ CallClear(1)
    /\ UNCHANGED <<nelsonMap, gor, scrape, test, main>>

\* the run driver feeds one of its two values, in ascending time order
FeedRun ==
    /\ test = RunTest
    /\ hist[1].calls < heap[1].stats.sampleSize + MaxRun
    /\ \E v \in RunValues : CallAddSample(1, Sample(hist[1].calls + 1, v))
    /\ UNCHANGED <<nelsonMap, gor, scrape, test, main>>

\* the ring driver feeds a value not fed before, in ascending time order
FeedRing ==
    /\ test = RingTest
    /\ hist[1].calls < heap[1].stats.sampleSize + MaxRing
    /\ CallAddSample(1, Sample(hist[1].calls + 1, hist[1].calls + 1))
    /\ UNCHANGED <<nelsonMap, gor, scrape, test, main>>

\* the pair driver feeds one of its two evaluators, up to one sample after
\* the baseline
FeedPair ==
    /\ test = PairTest
    /\ \E a \in DOMAIN heap, v \in RunValues :
          /\ hist[a].calls <= heap[a].stats.sampleSize
          /\ CallAddSample(a, Sample(hist[a].calls + 1, v))
    /\ UNCHANGED <<nelsonMap, gor, scrape, test, main>>

\* the pair driver clears one of its two evaluators
ClearPair ==
    /\ test = PairTest
    /\ \E a \in DOMAIN heap :
          /\ hist[a].clears < MaxClears
          /\ CallClear(a)
    /\ UNCHANGED <<nelsonMap, gor, scrape, test, main>>

\* the zigzag driver feeds a value one above, one below or equal to the one
\* before, in ascending time order
FeedZig ==
    /\ test.name = ZigTest.name
    /\ hist[1].calls < heap[1].stats.sampleSize + MaxZig
    /\ \E v \in ZigValues(heap[1].stats.sampleSize, hist[1].fed, test.pos) :
          /\ CallAddSample(1, Sample(hist[1].calls + 1, v))
          /\ test' = IF ZigBreak(heap[1].stats.sampleSize, hist[1].fed, v)
                     THEN [test EXCEPT !.pos = @ + 1] ELSE test
    /\ UNCHANGED <<nelsonMap, gor, scrape, main>>

\* a test feeds its next sample
TestStep ==
    /\ test.name \in TestNames
    /\ test.pos < Len(Script(test.name))
    /\ CallAddSample(1, Script(test.name)[test.pos + 1])
    /\ test' = [test EXCEPT !.pos = @ + 1]
    /\ UNCHANGED <<nelsonMap, gor, scrape, main>>

Next ==
    \/ FeedSample \/ FeedClear \/ FeedRun \/ FeedRing \/ FeedZig
    \/ FeedPair \/ ClearPair \/ TestStep

Spec == Init /\ [][Next]_vars

-----------------------------------------------------------------------------
(* Properties of one evaluator *)

\* the evaluator the last call was made on, as it is now and as it was
After == heap[call.d]
Before == call.before

\* the five fields derived by the baseline
Derived(s) == <<s.ready, s.mean, s.standardDeviation, s.twoDeviations,
                s.threeDeviations>>

Bool(b) == IF b THEN 1 ELSE 0

\* C1: each of the first N AddSample calls on an evaluator of sample size N
\* (the N-th, which completes the baseline, included) returns a nil result
\* and changes nothing but the baseline: no rule state, no tally, no ring.
C1_BaselineCallsSilent ==
    (call.op = "AddSample" /\ hist[call.d].calls <= Before.stats.sampleSize)
        => /\ call.result.nil
           /\ [After EXCEPT !.stats = Before.stats] = Before

C1_Witness ==
    /\ call.op = "AddSample"
    /\ Before.stats.sampleSize = 2
    /\ hist[call.d].calls = 2
    /\ After.stats.ready
    /\ call.result.nil

\* C2: a post-baseline AddSample adds exactly 1 to the tally of each active
\* rule whose result is true and leaves every other entry alone; while the
\* evaluator was never cleared, the tally of a rule is the number of samples
\* for which it returned true.
C2_TallyCountsTrueResults ==
    /\ (call.op = "AddSample" /\ Before.stats.ready) =>
          \A r \in RuleNames :
             Get(After.Violations, r) = Get(Before.Violations, r)
                + Bool(r \in DOMAIN call.result.m /\ call.result.m[r])
    /\ \A a \in DOMAIN heap :
          hist[a].clears = 0 =>
             \A r \in RuleNames : Get(heap[a].Violations, r) = hist[a].hits[r]

C2_Witness ==
    /\ call.op = "AddSample"
    /\ hist[call.d].clears = 0
    /\ \E r \in DOMAIN call.result.m :
          call.result.m[r] /\ Get(After.Violations, r) = 2
    /\ \E r \in DOMAIN call.result.m : ~call.result.m[r]

\* C3 as stated: once the baseline is ready, no AddSample and no Clear call
\* changes any of the five derived fields.
C3_DerivedNeverChange ==
    (call.op \in {"AddSample", "Clear"} /\ Before.stats.ready)
        => Derived(After.stats) = Derived(Before.stats)

\* C3 amended: once the baseline is ready, no AddSample call changes any of
\* the five derived fields; a Clear call sets the mean and the three
\* deviations to 0.
C3_DerivedFrozenUntilClear ==
    /\ (call.op = "AddSample" /\ Before.stats.ready)
          => Derived(After.stats) = Derived(Before.stats)
    /\ call.op = "Clear"
          => /\ After.stats.mean = Zero
             /\ After.stats.standardDeviation = ZeroDev
             /\ After.stats.twoDeviations = ZeroDev
             /\ After.stats.threeDeviations = ZeroDev

C3_Witness ==
    /\ call.op = "AddSample"
    /\ Before.stats.ready
    /\ hist[call.d].clears = 0
    /\ ~IsZero(After.stats.standardDeviation)
    /\ ~After.stats.standardDeviation.nan
    /\ hist[call.d].calls >= Before.stats.sampleSize + 2

\* C4: Clear on an evaluator with a ready baseline and accumulated violations
\* leaves it equal to a newly constructed evaluator of the same sample size,
\* rules and metric.
C4_ClearGivesNewData ==
    (call.op = "Clear" /\ Before.stats.ready /\ hasViolations(Before))
        => After = NewData(Before.Metric, Before.stats.sampleSize, Before.Rules)

\* C8: a post-baseline AddSample returns a map whose keys are exactly the
\* active rules, each with a boolean; a pre-baseline AddSample returns nil.
C8_ResultHasEveryActiveRule ==
    call.op = "AddSample" =>
        IF Before.stats.ready
        THEN /\ ~call.result.nil
             /\ DOMAIN call.result.m = Names(Before.Rules)
             /\ \A r \in DOMAIN call.result.m : call.result.m[r] \in BOOLEAN
        ELSE call.result.nil /\ DOMAIN call.result.m = {}

C8_Witness ==
    /\ call.op = "AddSample"
    /\ ~call.result.nil
    /\ Before.Rules = CommonRules
    /\ \A r \in DOMAIN call.result.m : ~call.result.m[r]

\* C9: with a baseline of standard deviation 0, rules 1, 5, 6, 7 and 8 return
\* false for every sample and leave the rule 5 and 6 windows and the rule 7
\* and 8 counters as they were.
C9_ZeroDeviationGuards ==
    (call.op = "AddSample" /\ Before.stats.ready
       /\ IsZero(Before.stats.standardDeviation))
        => /\ \A r \in {"Rule1", "Rule5", "Rule6", "Rule7", "Rule8"} :
                 r \in DOMAIN call.result.m => ~call.result.m[r]
           /\ After.rule5LastThree = Before.rule5LastThree
           /\ After.rule6LastFive = Before.rule6LastFive
           /\ After.rule7Count = Before.rule7Count
           /\ After.rule8Count = Before.rule8Count

C9_Witness ==
    /\ call.op = "AddSample"
    /\ Before.stats.ready
    /\ hist[call.d].clears = 0
    /\ IsZero(Before.stats.standardDeviation)
    /\ ~AtMean(call.s.v, Before.stats.mean)
    /\ "Rule7" \in DOMAIN call.result.m

\* C10: rule 1 returns true exactly when the deviation is not 0 and the sample
\* is more than 3 deviations from the mean; TestRule1 (9, 10, 18, 11 after the
\* test baseline, all rules) gets one violation in all, of Rule1, on the 18.
C10_Rule1 ==
    /\ (call.op = "AddSample" /\ Before.stats.ready
          /\ "Rule1" \in DOMAIN call.result.m)
          => call.result.m["Rule1"] =
                (/\ ~IsZero(Before.stats.standardDeviation)
                 /\ Beyond(call.s.v, Before.stats.mean,
                           Times(3, Before.stats.standardDeviation)))
    /\ (test.name = "TestRule1" /\ call.op = "AddSample" /\ Before.stats.ready)
          => \A r \in RuleNames :
                call.result.m[r] = (r = "Rule1" /\ call.s.v = 180)
    /\ (test.name = "TestRule1" /\ test.pos = Len(Script("TestRule1")))
          => /\ DOMAIN heap[1].Violations = {"Rule1"}
             /\ heap[1].Violations["Rule1"] = 1

C10_Witness ==
    /\ test = [name |-> "TestRule1", pos |-> Len(Script("TestRule1"))]
    /\ heap[1].stats.mean = Rat(100, 1)
    /\ hasViolations(heap[1])

-----------------------------------------------------------------------------
(* Properties of the poller *)

\* the goroutines inside the loop of processSampleStream
InLoop(g) == gor[g].pc \in {"range", "adding"}

\* the samples of the current stream in the order the loop passes them:
\* those passed, the one being passed, those still to pass
LoopOrder(g) ==
    gor[g].fed \o (IF gor[g].pc = "adding" THEN <<gor[g].sp>> ELSE << >>)
               \o gor[g].out

Range(xs) == {xs[i] : i \in 1..Len(xs)}

\* xs and ys hold the same elements, each as often
SameElements(xs, ys) ==
    /\ Len(xs) = Len(ys)
    /\ \A x \in Range(xs) \cup Range(ys) : Count(xs, x) = Count(ys, x)

AscendingTime(xs) == \A i, j \in 1..Len(xs) : i < j => xs[i].t <= xs[j].t

\* C5: when goroutines look up the same unseen key concurrently, one evaluator
\* is created for the key and every goroutine feeds the one installed.
C5_OneEvaluatorPerKey ==
    /\ \A k \in Keys : Cardinality({a \in DOMAIN heap : heap[a].Metric = k}) <= 1
    /\ \A g \in DOMAIN gor : InLoop(g) => gor[g].d = nelsonMap[gor[g].k]

C7_FedInTimeOrder ==
    \A g \in DOMAIN gor :
        InLoop(g) =>
            /\ SameElements(LoopOrder(g), gor[g].in)
            /\ AscendingTime(LoopOrder(g))
            /\ (gor[g].fed # << >> /\ gor[g].pc = "range")
                  => call.s = gor[g].fed[Len(gor[g].fed)]

C7_Witness ==
    \E g \in DOMAIN gor :
        /\ gor[g].pc = "range"
        /\ gor[g].out = << >>
        /\ Len(gor[g].in) = 2
        /\ gor[g].in[1].t > gor[g].in[2].t
        /\ gor[g].fed = <<gor[g].in[2], gor[g].in[1]>>

-----------------------------------------------------------------------------
(* Properties of the rules *)

\* the samples evaluated by the evaluator at a since it was built or cleared,
\* oldest first
Evaluated(a) == SubSeq(hist[a].fed, hist[a].base + 1, Len(hist[a].fed))

\* the last call was an AddSample that evaluated its sample
Evaluating == call.op = "AddSample" /\ Before.stats.ready

\* the up to n most recent elements of xs
LastN(xs, n) == SubSeq(xs, IF Len(xs) > n THEN Len(xs) - n + 1 ELSE 1, Len(xs))

\* the test `name` gets a true result from `rule` alone, for the sample at
\* position pos of its script alone, and ends with that one violation tallied
OneViolation(name, rule, pos) ==
    /\ (test.name = name /\ Evaluating)
          => \A r \in RuleNames :
                call.result.m[r] = (r = rule /\ test.pos = pos)
    /\ (test.name = name /\ test.pos = Len(Script(name)))
          => /\ DOMAIN heap[1].Violations = {rule}
             /\ heap[1].Violations[rule] = 1

\* C11: after every evaluated sample |rule2Count| is the length of the run of
\* most recent evaluated samples strictly on one side of the mean, its sign
\* the side (0 when the sample equals the mean), and Rule2 is true exactly
\* when the run is 9 or longer; TestRule2 (9, 11, 10, nine 11s, 8) gets one
\* violation in all, of Rule2, on the ninth 11 in a row.
C11_Rule2 ==
    /\ Evaluating =>
          LET xs == Evaluated(call.d)
              above == TailRun([i \in 1..Len(xs) |->
                                   Above(xs[i].v, Before.stats.mean)])
              below == TailRun([i \in 1..Len(xs) |->
                                   Below(xs[i].v, Before.stats.mean)])
          IN /\ After.rule2Count = above - below
             /\ call.result.m["Rule2"] = (above >= 9 \/ below >= 9)
    /\ OneViolation("TestRule2", "Rule2", Len(statSamples) + 12)

C11_Witness ==
    /\ test = [name |-> "TestRule2", pos |-> Len(Script("TestRule2"))]
    /\ heap[1].rule2Count = -1
    /\ Get(heap[1].Violations, "Rule2") = 1

\* C12: Rule3 is true for an evaluated sample exactly when its counter has
\* magnitude 6 or more, the counter being the number of most recent steps
\* between evaluated samples that all rise (+) or all fall (-): 0 after the
\* first evaluated sample and after a flat step, one more on a step in the
\* same direction, 1 or -1 on a reversal.  TestRule3_1 and TestRule3_2 each
\* get one violation in all, of Rule3.
C12_Rule3 ==
    /\ Evaluating =>
          LET steps == Steps(Evaluated(call.d))
              rising == TailRun([i \in 1..Len(steps) |-> steps[i].dir = ">"])
              falling == TailRun([i \in 1..Len(steps) |-> steps[i].dir = "<"])
          IN /\ After.rule3Count = rising - falling
             /\ call.result.m["Rule3"] = (Abs(After.rule3Count) >= 6)
             /\ After.rule3PreviousSample = Ptr(call.s.v)
    /\ OneViolation("TestRule3_1", "Rule3", Len(statSamples) + 8)
    /\ OneViolation("TestRule3_2", "Rule3", Len(statSamples) + 8)

C12_Witness ==
    /\ test = [name |-> "TestRule3_2", pos |-> Len(Script("TestRule3_2"))]
    /\ heap[1].rule3Count = 1
    /\ Get(heap[1].Violations, "Rule3") = 1

\* C13: Rule4 is true exactly when its counter is 14 or more, the counter
\* being the number of most recent steps between evaluated samples each of
\* which is not flat and differs in direction from the step before it: 0
\* after the first evaluated sample, a flat step and a step that repeats the
\* direction of the previous one, one more on a step that changes direction.
\* TestRule4 gets no violation for its first 13 samples and one in all, of
\* Rule4, on its 15th.
C13_Rule4 ==
    /\ Evaluating =>
          LET steps == Steps(Evaluated(call.d))
              turns == TailRun([i \in 1..Len(steps) |->
                                   /\ steps[i].dir # "="
                                   /\ steps[i].dir # steps[i].prev])
          IN /\ After.rule4Count = turns
             /\ call.result.m["Rule4"] = (turns >= 14)
    /\ OneViolation("TestRule4", "Rule4", Len(statSamples) + 15)
    /\ (test.name = "TestRule4" /\ test.pos <= Len(statSamples) + 13)
          => ~hasViolations(heap[1])

C13_Witness ==
    /\ test = [name |-> "TestRule4", pos |-> Len(Script("TestRule4"))]
    /\ heap[1].rule4Count = 14
    /\ Get(heap[1].Violations, "Rule4") = 1

\* the sample x is more than k deviations above, or below, the mean of d
FarAbove(x, d, k) ==
    /\ Above(x.v, d.stats.mean)
    /\ Beyond(x.v, d.stats.mean, Times(k, d.stats.standardDeviation))

FarBelow(x, d, k) ==
    /\ Below(x.v, d.stats.mean)
    /\ Beyond(x.v, d.stats.mean, Times(k, d.stats.standardDeviation))

\* C14: with a deviation other than 0, Rule5 is true for an evaluated sample
\* exactly when, of the up to three most recent evaluated samples, two or
\* more are over 2 deviations above the mean or two or more are over 2
\* deviations below it; its window never holds more than three entries.
\* TestRule5 gets no violation for 4, 16 and one in all, of Rule5, on the
\* second 4.
C14_Rule5 ==
    /\ (Evaluating /\ ~IsZero(Before.stats.standardDeviation)) =>
          LET last == LastN(Evaluated(call.d), 3)
              above == Count([i \in 1..Len(last) |->
                                 FarAbove(last[i], Before, 2)], TRUE)
              below == Count([i \in 1..Len(last) |->
                                 FarBelow(last[i], Before, 2)], TRUE)
          IN call.result.m["Rule5"] = (above >= 2 \/ below >= 2)
    /\ \A a \in DOMAIN heap : Len(heap[a].rule5LastThree) <= 3
    /\ OneViolation("TestRule5", "Rule5", Len(statSamples) + 3)
    /\ (test.name = "TestRule5" /\ test.pos <= Len(statSamples) + 2)
          => ~hasViolations(heap[1])

\* a fourth evaluated sample, over 2 deviations above the mean as the first
\* was, with two between them that were not
C14_Witness ==
    /\ Evaluating
    /\ Len(Evaluated(call.d)) = 4
    /\ FarAbove(Evaluated(call.d)[1], Before, 2)
    /\ FarAbove(Evaluated(call.d)[4], Before, 2)
    /\ ~call.result.m["Rule5"]
    /\ Len(After.rule5LastThree) = 3

\* C15: with a deviation other than 0, Rule6 is true for an evaluated sample
\* exactly when, of the up to five most recent evaluated samples, four or
\* more are over 1 deviation above the mean or four or more are over 1
\* deviation below it; its window never holds more than five entries.
\* TestRule6 gets no violation for 7, 7, 4, 16 and one in all, of Rule6, on
\* the 7 that follows.
C15_Rule6 ==
    /\ (Evaluating /\ ~IsZero(Before.stats.standardDeviation)) =>
          LET last == LastN(Evaluated(call.d), 5)
              above == Count([i \in 1..Len(last) |->
                                 FarAbove(last[i], Before, 1)], TRUE)
              below == Count([i \in 1..Len(last) |->
                                 FarBelow(last[i], Before, 1)], TRUE)
          IN call.result.m["Rule6"] = (above >= 4 \/ below >= 4)
    /\ \A a \in DOMAIN heap : Len(heap[a].rule6LastFive) <= 5
    /\ OneViolation("TestRule6", "Rule6", Len(statSamples) + 5)
    /\ (test.name = "TestRule6" /\ test.pos <= Len(statSamples) + 4)
          => ~hasViolations(heap[1])

\* a sixth evaluated sample that leaves the window at five entries, four of
\* them over 1 deviation above the mean
C15_Witness ==
    /\ Evaluating
    /\ Len(Evaluated(call.d)) = 6
    /\ Len(After.rule6LastFive) = 5
    /\ Count(After.rule6LastFive, ">") = 4
    /\ call.result.m["Rule6"]

\* C16: on an evaluator that has Rule7 among its rules and a deviation other
\* than 0, rule7Count is the number of most recent evaluated samples in a row
\* that are within 1 deviation of the mean and not equal to it, and Rule7 is
\* true exactly when that number is 15 or more.  TestRule7 (all rules) gets
\* no violation for its first thirteen samples and one in all, of Rule7, for
\* the two 11.5 that follow.
C16_Rule7 ==
    /\ (Evaluating /\ ~IsZero(Before.stats.standardDeviation)
          /\ "Rule7" \in Names(Before.Rules)) =>
          LET xs == Evaluated(call.d)
              near == TailRun([i \in 1..Len(xs) |->
                                  /\ ~AtMean(xs[i].v, Before.stats.mean)
                                  /\ Within(xs[i].v, Before.stats.mean,
                                            Before.stats.standardDeviation)])
          IN /\ After.rule7Count = near
             /\ call.result.m["Rule7"] = (near >= 15)
    /\ OneViolation("TestRule7", "Rule7", Len(statSamples) + 15)
    /\ (test.name = "TestRule7" /\ test.pos <= Len(statSamples) + 13)
          => ~hasViolations(heap[1])

C16_Witness ==
    /\ test = [name |-> "TestRule7", pos |-> Len(Script("TestRule7"))]
    /\ heap[1].rule7Count = 15
    /\ Get(heap[1].Violations, "Rule7") = 1

C18_Rule8BothDirections ==
    (Evaluating /\ call.result.m["Rule8"]) =>
        LET last == LastN(Evaluated(call.d), 8)
        IN /\ Len(last) = 8
           /\ \A i \in 1..Len(last) :
                 Beyond(last[i].v, Before.stats.mean,
                        Before.stats.standardDeviation)
           /\ \E i \in 1..Len(last) : Above(last[i].v, Before.stats.mean)
           /\ \E i \in 1..Len(last) : Below(last[i].v, Before.stats.mean)

-----------------------------------------------------------------------------
(* Properties of the presets *)

\* the rules of a list without the one named r, in the order of the list
Without(rules, r) == SelectSeq(rules, LAMBDA x : x # r)

\* the entries of a map for the keys in ks
Restrict(m, ks) == [k \in DOMAIN m \cap ks |-> m[k]]

\* d.AddSample(xs[i]), d.AddSample(xs[i + 1]), ... on the evaluator o.d: the
\* evaluator after the calls and the result of the last
RECURSIVE FeedFrom(_, _, _)
FeedFrom(o, xs, i) ==
    IF i > Len(xs) THEN o ELSE FeedFrom(AddSample(o.d, xs[i]), xs, i + 1)

\* the evaluator at a had it been built with the common rules and fed the
\* samples the one at a was fed, and the result of its last call
CommonTwin(a) ==
    FeedFrom([d |-> NewData(heap[a].Metric, heap[a].stats.sampleSize, CommonRules),
              result |-> NilResult],
             hist[a].fed, 1)

\* C19: the common rules are the eight rules without Rule7, in the same
\* order; an evaluator built with the common rules, as main.go builds every
\* one, has them as its rules, has no Rule7 entry in a result or in its tally
\* and never calls rule7, whatever the samples (those given to an evaluator
\* built with no rules included); an evaluator built with no rules has all
\* eight.
C19_CommonPreset ==
    /\ CommonRules = Without(AllRules, "Rule7")
    /\ Len(AllRules) = 8
    /\ \A a \in DOMAIN heap :
          /\ hist[a].rules = << >> => heap[a].Rules = AllRules
          /\ hist[a].rules = CommonRules =>
                /\ heap[a].Rules = CommonRules
                /\ "Rule7" \notin DOMAIN heap[a].Violations
                /\ heap[a].rule7Count = 0
                /\ (call.op = "AddSample" /\ call.d = a)
                      => "Rule7" \notin DOMAIN call.result.m
          /\ (hist[a].rules = << >> /\ hist[a].clears = 0) =>
                LET twin == CommonTwin(a)
                IN /\ twin.d.Rules = CommonRules
                   /\ "Rule7" \notin DOMAIN twin.d.Violations
                   /\ "Rule7" \notin DOMAIN twin.result.m
                   /\ twin.d.rule7Count = 0

\* the samples of TestRule7, for which an evaluator with all the rules has
\* tallied Rule7 and one with the common rules has tallied nothing
C19_Witness ==
    /\ test = [name |-> "TestRule7", pos |-> Len(Script("TestRule7"))]
    /\ Get(heap[1].Violations, "Rule7") = 1
    /\ ~CommonTwin(1).result.nil
    /\ ~hasViolations(CommonTwin(1).d)

\* rule r called on evaluator d for sample s before any other rule of the
\* loop of evaluate
Alone(r, d, s) ==
    RuleF(r, [d EXCEPT !.ViolationsData = PushFrontMax(@, s, MaxSamples)], s.v)

\* the fields of d that rule r writes
StateOf(r, d) ==
    CASE r = "Rule1" -> << >>
      [] r = "Rule2" -> <<d.rule2Count>>
      [] r = "Rule3" -> <<d.rule3Count, d.rule3PreviousSample>>
      [] r = "Rule4" -> <<d.rule4Count, d.rule4PreviousSample,
                          d.rule4PreviousDirection>>
      [] r = "Rule5" -> <<d.rule5LastThree>>
      [] r = "Rule6" -> <<d.rule6LastFive>>
      [] r = "Rule7" -> <<d.rule7Count>>
      [] r = "Rule8" -> <<d.rule8Count>>

\* C20: every rule of the evaluator is called for every evaluated sample,
\* whatever the rules before it in the list returned, and its result and
\* state are those it would have were it called alone; and an evaluator with
\* all the rules and one with the common rules, given the same samples since
\* they were built, agree after every sample on the result and the tally of
\* each common rule and on every field but Rules, the Rule7 tally and
\* rule7Count.
C20_PresetsAgree ==
    /\ Evaluating =>
          \A r \in Names(Before.Rules) :
             /\ r \in DOMAIN call.result.m
             /\ call.result.m[r] = Alone(r, Before, call.s).violation
             /\ StateOf(r, After) = StateOf(r, Alone(r, Before, call.s).d)
    /\ \A a \in DOMAIN heap :
          (heap[a].Rules = AllRules /\ hist[a].clears = 0) =>
             LET twin == CommonTwin(a)
                 common == Names(CommonRules)
             IN /\ twin.d.Violations = Restrict(heap[a].Violations, common)
                /\ (call.op = "AddSample" /\ call.d = a) =>
                      /\ twin.result.nil = call.result.nil
                      /\ twin.result.m = Restrict(call.result.m, common)
                /\ [twin.d EXCEPT !.Rules = heap[a].Rules,
                                  !.Violations = heap[a].Violations,
                                  !.rule7Count = heap[a].rule7Count] = heap[a]

\* the last sample of TestRule7: Rule7, before Rule8 in the list, is true and
\* Rule8 has been called, and the two evaluators differ in the Rule7 tally
C20_Witness ==
    /\ test = [name |-> "TestRule7", pos |-> Len(Script("TestRule7"))]
    /\ call.result.m["Rule7"]
    /\ "Rule8" \in DOMAIN call.result.m
    /\ CommonTwin(1).d.Violations # heap[1].Violations
    /\ CommonTwin(1).d.rule8Count = heap[1].rule8Count

-----------------------------------------------------------------------------
(* Properties of the baseline *)

\* the root of n/d with k more decimal digits, cut off: p is the root so far
\* and r the remainder, d times what is left under the root
RECURSIVE SqrtDigits(_, _, _, _)
SqrtDigits(p, r, d, k) ==
    IF k = 0 THEN p
    ELSE LET c == 100 * r
             x == CHOOSE y \in 0..9 :
                     /\ d * (20 * p + y) * y <= c
                     /\ y < 9 => d * (20 * p + y + 1) * (y + 1) > c
         IN SqrtDigits(10 * p + x, c - d * (20 * p + x) * x, d, k - 1)

\* fmt.Sprintf("%.5f", dev) for a deviation of samples in tenths: the
\* deviation in units rounded to 5 decimals, as a number of 1/100000
Sprintf5(dev) ==
    LET q == Rat(dev.sq.n, dev.sq.d * 100)
        p == CHOOSE y \in 0..q.n : q.d * y * y <= q.n /\ q.d * (y + 1) * (y + 1) > q.n
    IN (SqrtDigits(p, q.n - q.d * p * p, q.d, 6) + 5) \div 10

\* fmt.Sprintf("%.1f", mean) for a mean of samples in tenths: the mean in
\* units rounded to 1 decimal, as a number of tenths
Sprintf1(mean) == (2 * mean.n + mean.d) \div (2 * mean.d)

\* C21: an evaluator of sample size 10 given 6, 7, 8, 9, 10, 10, 11, 12, 13,
\* 14 is not ready before the tenth and is ready from it on, with mean 10.0,
\* the deviation of the sample (divisor n - 1), whose square is 60/9 and
\* which prints as 2.58199 to five decimals, and two and three deviations of
\* twice and three times that.
C21_TestStats ==
    (test.name \in TestNames /\ heap[1].stats.sampleSize = Len(statSamples)) =>
        IF test.pos < Len(statSamples) THEN ~heap[1].stats.ready
        ELSE /\ heap[1].stats.ready
             /\ heap[1].stats.mean = Rat(100, 1)
             /\ Sprintf1(heap[1].stats.mean) = 100
             /\ ~heap[1].stats.standardDeviation.nan
             /\ heap[1].stats.standardDeviation.sq = Rat(60 * 100, 9)
             /\ Sprintf5(heap[1].stats.standardDeviation) = 258199
             /\ heap[1].stats.twoDeviations.sq = Rat(4 * 60 * 100, 9)
             /\ heap[1].stats.threeDeviations.sq = Rat(9 * 60 * 100, 9)
             /\ ~heap[1].stats.twoDeviations.nan
             /\ ~heap[1].stats.threeDeviations.nan

C21_Witness ==
    /\ test = [name |-> "TestStats", pos |-> Len(Script("TestStats"))]
    /\ heap[1].stats.ready
    /\ heap[1].stats.numSamples = 10
    /\ Sprintf5(heap[1].stats.standardDeviation) = 258199

-----------------------------------------------------------------------------
(* Properties of the poller and its sink *)

\* C22: the sink is added 1 for rule r and series k once for every AddSample
\* on the evaluator of k whose result has r true, and never otherwise: in
\* every state, so after every batch, its count for (r, k) is the number of
\* such results and is the tally Violations[r] of that evaluator, and it is
\* 0 for a series that has no evaluator.
C22_SinkCountsViolations ==
    \A k \in Keys, r \in RuleNames :
        IF nelsonMap[k] = 0 THEN scrape[<<r, k>>] = 0
        ELSE /\ scrape[<<r, k>>] = hist[nelsonMap[k]].hits[r]
             /\ scrape[<<r, k>>] = Get(heap[nelsonMap[k]].Violations, r)

\* a batch is through, with one Rule1 violation and no Rule2 violation for
\* a series
C22_Witness ==
    /\ \E g \in DOMAIN gor : gor[g].pc = "sleep"
    /\ call.op = "AddSample"
    /\ \E k \in Keys :
          /\ nelsonMap[k] # 0
          /\ scrape[<<"Rule1", k>>] = 1
          /\ heap[nelsonMap[k]].Violations["Rule1"] = 1
          /\ scrape[<<"Rule2", k>>] = 0

-----------------------------------------------------------------------------
(* Properties of the delivery order *)

\* the samples of a test with those at i and j of its own exchanged
Exchanged(name, i, j) == statSamples \o Swap(testSamples(name), i, j)

\* a new evaluator of the tests given the samples xs in the order of xs
Delivered(xs) ==
    FeedFrom([d |-> NewData("test-metric", 10, << >>), result |-> NilResult],
             xs, 1).d

\* the test `name` is over; given its samples with those at i and j
\* exchanged, not in time order any more, a like evaluator has the same
\* baseline, and has no violation of `rule` where the test has one
OrderDecides(name, rule, i, j) ==
    (test.name = name /\ test.pos = Len(Script(name))) =>
        LET other == Delivered(Exchanged(name, i, j))
        IN /\ hist[1].fed = Script(name)
           /\ AscendingTime(hist[1].fed)
           /\ ~AscendingTime(Exchanged(name, i, j))
           /\ SameElements(hist[1].fed, Exchanged(name, i, j))
           /\ other.stats = heap[1].stats
           /\ other.Rules = heap[1].Rules
           /\ Get(heap[1].Violations, rule) = 1
           /\ Get(other.Violations, rule) = 0
           /\ other.Violations # heap[1].Violations

\* C23: the order of delivery decides the result.  The samples of TestRule2,
\* TestRule3_1 and TestRule4, given after the same baseline to a like
\* evaluator with two of them exchanged, so not in ascending time order,
\* leave it without the violation of Rule2, Rule3, Rule4 that the ascending
\* order gives.
C23_OrderDecides ==
    /\ OrderDecides("TestRule2", "Rule2", 3, 8)
    /\ OrderDecides("TestRule3_1", "Rule3", 4, 5)
    /\ OrderDecides("TestRule4", "Rule4", 3, 4)

C23_Witness ==
    /\ test = [name |-> "TestRule3_1", pos |-> Len(Script("TestRule3_1"))]
    /\ DOMAIN heap[1].Violations = {"Rule3"}
    /\ ~hasViolations(Delivered(Exchanged("TestRule3_1", 4, 5)))
    /\ Delivered(Exchanged("TestRule3_1", 4, 5)).ViolationsData # heap[1].ViolationsData

-----------------------------------------------------------------------------
(* Properties of main *)

\* the options are not valid: no positive sampleSize, or no server
Invalid(options) == options.sampleSize <= 0 \/ options.server = ""

\* C24: validateOptions returns an error exactly when sampleSize <= 0 or the
\* server is empty; main then exits with the sink not started and no
\* goroutine started, so no evaluator is made; and every evaluator that is
\* made has the sampleSize of the options, which is > 0.
C24_ValidatedOptions ==
    /\ (validateOptions(main.options) # NoError) = Invalid(main.options)
    /\ (main.pc \in {"start", "wait", "exit"} /\ Invalid(main.options))
          => /\ main.pc = "exit"
             /\ main.err = validateOptions(main.options)
             /\ ~main.ep
             /\ gor = << >>
             /\ heap = << >>
             /\ \A k \in Keys : nelsonMap[k] = 0
    /\ \A a \in DOMAIN heap :
          /\ heap[a].stats.sampleSize > 0
          /\ heap[a].stats.sampleSize = main.options.sampleSize

\* main has exited for a sampleSize of 0, the server being set
C24_Witness ==
    /\ main.pc = "exit"
    /\ main.options.sampleSize = 0
    /\ main.options.server # ""
    /\ main.err = "SampleSize must be > 0"
    /\ ~main.ep

\* C25: when api.Query returns an error the process exits in that step: every
\* goroutine and main are at their exit, the step feeds no sample, makes no
\* evaluator and adds nothing to the sink, and no step follows an exit, so
\* the query is not made again and no later cycle runs.
C25_QueryErrorExits ==
    /\ [](main.err = "query" =>
            /\ main.pc = "exit"
            /\ \A g \in DOMAIN gor : gor[g].pc = "exit")
    /\ [][main.pc # "exit"]_vars
    /\ [][main'.err = "query" =>
            /\ main.err = NoError
            /\ heap' = heap
            /\ hist' = hist
            /\ call' = call
            /\ scrape' = scrape
            /\ nelsonMap' = nelsonMap
            /\ \A g \in DOMAIN gor :
                  /\ gor'[g].cycle = gor[g].cycle
                  /\ gor[g].pc = "query" =>
                        (gor'[g].matrix = << >> /\ gor'[g].fed = << >>)]_vars

\* the query of the second cycle has failed, after samples of the first
\* were fed
C25_Witness ==
    /\ main.err = "query"
    /\ main.pc = "exit"
    /\ heap # << >>
    /\ call.op = "AddSample"
    /\ \E g \in DOMAIN gor : gor[g].pc = "exit" /\ gor[g].cycle = 1

-----------------------------------------------------------------------------
(* Properties of the baseline across batches *)

Min(a, b) == IF a < b THEN a ELSE b

\* the values of the first n samples of xs, in the order of xs
FirstValues(xs, n) == [i \in 1..Min(n, Len(xs)) |-> xs[i].v]

\* C26: an evaluator of sample size N that was never cleared is ready
\* exactly when it has been given N samples or more, in however many
\* batches: one evaluator is made for a key and the loop always works on
\* the one registered.  numSamples is the number of samples given, N at
\* most, values holds the first N of them in the order given, and from the
\* N-th on the mean and the deviations are those of these N values.
C26_ReadyOnNthSample ==
    /\ \A k \in Keys :
          /\ Cardinality({a \in DOMAIN heap : heap[a].Metric = k}) <= 1
          /\ nelsonMap[k] # 0 => heap[nelsonMap[k]].Metric = k
    /\ \A g \in DOMAIN gor : InLoop(g) => gor[g].d = nelsonMap[gor[g].k]
    /\ \A a \in DOMAIN heap :
          hist[a].clears = 0 =>
             LET st == heap[a].stats
                 first == FirstValues(hist[a].fed, st.sampleSize)
             IN /\ st.ready = (Len(hist[a].fed) >= st.sampleSize)
                /\ st.numSamples = Len(first)
                /\ st.numSamples <= st.sampleSize
                /\ Len(st.values) = st.sampleSize
                /\ st.values = first \o Zeros(st.sampleSize - Len(first))
                /\ hist[a].base = Len(first)
                /\ IF st.ready
                   THEN /\ st.mean = Mean(first)
                        /\ st.standardDeviation = StdDev(first)
                        /\ st.twoDeviations = Times(2, StdDev(first))
                        /\ st.threeDeviations = Times(3, StdDev(first))
                   ELSE /\ st.mean = Zero
                        /\ st.standardDeviation = ZeroDev

\* the second sample of an evaluator of sample size 2 came in the second
\* cycle, one cycle after the first
C26_Witness ==
    \E g \in DOMAIN gor :
        /\ gor[g].cycle = 1
        /\ gor[g].pc = "range"
        /\ Len(gor[g].fed) = 1
        /\ hist[gor[g].d].calls = 2
        /\ heap[gor[g].d].stats.sampleSize = 2
        /\ heap[gor[g].d].stats.ready
        /\ ~IsZero(heap[gor[g].d].stats.standardDeviation)

\* C27: after Clear on a ready evaluator of sample size N the next N
\* AddSample calls return nil and make a new baseline, and the evaluator is
\* from then on as a newly made one given the samples that came after the
\* Clear.
C27_ClearRestartsDetection ==
    \A a \in DOMAIN heap :
        hist[a].clears > 0 =>
            /\ (call.op = "AddSample" /\ call.d = a
                  /\ Len(hist[a].fed) <= heap[a].stats.sampleSize)
                  => call.result.nil
            /\ heap[a].stats.ready = (Len(hist[a].fed) >= heap[a].stats.sampleSize)
            /\ heap[a] = FeedFrom([d |-> NewData(heap[a].Metric,
                                                 heap[a].stats.sampleSize,
                                                 heap[a].Rules),
                                   result |-> NilResult],
                                  hist[a].fed, 1).d

-----------------------------------------------------------------------------
(* Properties of ViolationsData *)

\* xs from its last element to its first
Reverse(xs) == [i \in 1..Len(xs) |-> xs[Len(xs) + 1 - i]]

\* C28: ViolationsData never holds more than 15 samples; when k samples were
\* evaluated since the evaluator was made or cleared it holds the min(k, 15)
\* most recent of them, the newest first, so none of the samples that went
\* to the baseline; and the result of a call is the same with the list
\* emptied before the call.
C28_RecentSamples ==
    /\ \A a \in DOMAIN heap :
          /\ Len(heap[a].ViolationsData) <= 15
          /\ Len(heap[a].ViolationsData) = Min(Len(Evaluated(a)), 15)
          /\ heap[a].ViolationsData = Reverse(LastN(Evaluated(a), 15))
          /\ ~heap[a].stats.ready => heap[a].ViolationsData = << >>
    /\ Evaluating =>
          LET o == AddSample([Before EXCEPT !.ViolationsData = << >>], call.s)
          IN /\ o.result = call.result
             /\ o.d.Violations = After.Violations

\* the sixteenth evaluated sample has pushed the first out
C28_Witness ==
    /\ Evaluating
    /\ Len(Evaluated(call.d)) = 16
    /\ Len(After.ViolationsData) = 15
    /\ After.ViolationsData[1] = call.s
    /\ After.ViolationsData[15] = Evaluated(call.d)[2]
    /\ Before.ViolationsData[15] = Evaluated(call.d)[1]

-----------------------------------------------------------------------------
(* Properties of Clear *)

\* C29: Clear changes neither the rules the evaluator applies, nor its
\* metric, nor its sample size, in whatever state it is called; so every
\* evaluator keeps those NewData gave it.
C29_ClearKeepsSelection ==
    /\ call.op = "Clear" =>
          /\ After.Rules = Before.Rules
          /\ After.Metric = Before.Metric
          /\ After.stats.sampleSize = Before.stats.sampleSize
          /\ Len(After.stats.values) = Len(Before.stats.values)
    /\ \A a \in DOMAIN heap :
          heap[a].Rules =
              NewData(heap[a].Metric, heap[a].stats.sampleSize, hist[a].rules).Rules

\* an evaluator made with the common rules is cleared after a violation
C29_Witness ==
    /\ call.op = "Clear"
    /\ Before.stats.ready
    /\ hasViolations(Before)
    /\ Before.Rules = CommonRules
    /\ After.Rules = CommonRules
    /\ ~hasViolations(After)

-----------------------------------------------------------------------------
(* Properties of the series *)

-----------------------------------------------------------------------------
(* Properties of the runs *)

\* C31: Rule4 is true for an evaluated sample exactly when the most recent
\* steps that all turn (none flat, none repeating the direction of the step
\* before) are 14 or more, and rule4Count is their number, in the same way
\* whether these steps began with the first evaluated sample, after a flat
\* step or after a step that repeated a direction: with 13 of them there is
\* no violation, with 14 there is one.
C31_Rule4SameCount ==
    Evaluating =>
        LET xs == Evaluated(call.d)
            run == Alternating(xs)
        IN /\ Began(xs) \in {"first", "flat", "repeat"}
           /\ After.rule4Count = run
           /\ call.result.m["Rule4"] = (run >= 14)
           /\ run = 13 => ~call.result.m["Rule4"]
           /\ run = 14 => call.result.m["Rule4"]

\* a third violation of Rule4, on the 14th step after a step that repeated a
\* direction, the first having come on the 14th step after the first
\* evaluated sample and the second on the 14th step after a flat step
C31_Witness ==
    /\ Evaluating
    /\ call.result.m["Rule4"]
    /\ hist[call.d].hits["Rule4"] = 3
    /\ LET xs == Evaluated(call.d)
       IN /\ Alternating(xs) = 14
          /\ Began(xs) = "repeat"
          /\ \E i, j \in 1..Len(xs) :
                /\ Alternating(SubSeq(xs, 1, i)) = 14
                /\ Began(SubSeq(xs, 1, i)) = "first"
                /\ Alternating(SubSeq(xs, 1, j)) = 14
                /\ Began(SubSeq(xs, 1, j)) = "flat"

-----------------------------------------------------------------------------
(* Properties of the windows *)

\* of the up to n most recent samples evaluated by the last call's evaluator,
\* how many are over k deviations above the mean, and how many below
AboveInLast(n, k) ==
    LET last == LastN(Evaluated(call.d), n)
    IN Count([i \in 1..Len(last) |-> FarAbove(last[i], Before, k)], TRUE)

BelowInLast(n, k) ==
    LET last == LastN(Evaluated(call.d), n)
    IN Count([i \in 1..Len(last) |-> FarBelow(last[i], Before, k)], TRUE)

\* C32: Rule5 (Rule6) is true only for a sample that is itself over 2
\* deviations (1 deviation) from the mean, on the side on which 2 of the
\* last 3 (4 of the last 5) evaluated samples are.
C32_OffendingSampleOnly ==
    Evaluating =>
        /\ call.result.m["Rule5"] =>
              \/ FarAbove(call.s, Before, 2) /\ AboveInLast(3, 2) >= 2
              \/ FarBelow(call.s, Before, 2) /\ BelowInLast(3, 2) >= 2
        /\ call.result.m["Rule6"] =>
              \/ FarAbove(call.s, Before, 1) /\ AboveInLast(5, 1) >= 4
              \/ FarBelow(call.s, Before, 1) /\ BelowInLast(5, 1) >= 4

\* C32 as amended: Rule5 (Rule6) is true only when 2 of the last 3 (4 of the
\* last 5) evaluated samples, the sample of the call among them, are over 2
\* deviations (1 deviation) from the mean on one side; the sample of the
\* call is one of them or comes right after two (four) of them.
C32_OffendingOrNextAfter ==
    Evaluating =>
        LET xs == Evaluated(call.d)
            n == Len(xs)
        IN /\ call.result.m["Rule5"] =>
                 \/ /\ AboveInLast(3, 2) >= 2
                    /\ \/ FarAbove(call.s, Before, 2)
                       \/ /\ n >= 3
                          /\ \A i \in (n - 2)..(n - 1) : FarAbove(xs[i], Before, 2)
                 \/ /\ BelowInLast(3, 2) >= 2
                    /\ \/ FarBelow(call.s, Before, 2)
                       \/ /\ n >= 3
                          /\ \A i \in (n - 2)..(n - 1) : FarBelow(xs[i], Before, 2)
           /\ call.result.m["Rule6"] =>
                 \/ /\ AboveInLast(5, 1) >= 4
                    /\ \/ FarAbove(call.s, Before, 1)
                       \/ /\ n >= 5
                          /\ \A i \in (n - 4)..(n - 1) : FarAbove(xs[i], Before, 1)
                 \/ /\ BelowInLast(5, 1) >= 4
                    /\ \/ FarBelow(call.s, Before, 1)
                       \/ /\ n >= 5
                          /\ \A i \in (n - 4)..(n - 1) : FarBelow(xs[i], Before, 1)

\* Rule5 is true for a sample within 2 deviations of the mean that comes
\* right after two samples over 2 deviations above it
C32_Witness ==
    /\ Evaluating
    /\ call.result.m["Rule5"]
    /\ ~FarAbove(call.s, Before, 2)
    /\ ~FarBelow(call.s, Before, 2)
    /\ AboveInLast(3, 2) = 2

-----------------------------------------------------------------------------
(* Properties of the runs on one side of the mean *)

\* +1, -1 or 0 as v is above, below or at the mean
Side(v, mean) == IF Above(v, mean) THEN 1 ELSE IF Below(v, mean) THEN -1 ELSE 0

\* the length of the run of samples of xs on the side of xs[j] that ends
\* with xs[j]
SideRun(xs, mean, j) ==
    TailRun([i \in 1..j |-> Side(xs[i].v, mean) = Side(xs[j].v, mean)])

\* for every uninterrupted run of L >= 9 samples of xs strictly on one side
\* of the mean, L - 8; in all
RunExcess(xs, mean) ==
    Sum([j \in 1..Len(xs) |->
            IF /\ Side(xs[j].v, mean) # 0
               /\ (j = Len(xs) \/ Side(xs[j + 1].v, mean) # Side(xs[j].v, mean))
               /\ SideRun(xs, mean, j) >= 9
            THEN SideRun(xs, mean, j) - 8 ELSE 0])

\* C33: the tally of Rule2 is, for every uninterrupted run of L >= 9
\* evaluated samples strictly on one side of the mean, L - 8, the run still
\* going on included, so Rule2 is true again for every sample of a run after
\* its ninth; and the sink was added 1 for Rule2 and the key of the
\* evaluator as often.
C33_Rule2EverySample ==
    /\ \A a \in DOMAIN heap :
          Get(heap[a].Violations, "Rule2") =
              RunExcess(Evaluated(a), heap[a].stats.mean)
    /\ \A k \in Keys :
          nelsonMap[k] # 0 =>
              scrape[<<"Rule2", k>>] =
                  RunExcess(Evaluated(nelsonMap[k]), heap[nelsonMap[k]].stats.mean)
    /\ (Evaluating /\ Abs(After.rule2Count) >= 9) => call.result.m["Rule2"]

\* a run of eleven samples above the mean, over two batches, has given three
\* violations of Rule2 and three additions to the sink
C33_Witness ==
    /\ Evaluating
    /\ nelsonMap[Stable] = call.d
    /\ After.rule2Count = 11
    /\ After.Violations["Rule2"] = 3
    /\ scrape[<<"Rule2", Stable>>] = 3

-----------------------------------------------------------------------------
(* Properties of Rule7 and Rule8 together *)

\* C34: on an evaluator that has all eight rules, rule7Count and rule8Count
\* are never both other than 0, and no sample is reported for both Rule7 and
\* Rule8.
C34_Rule7OrRule8 ==
    /\ \A a \in DOMAIN heap :
          Names(heap[a].Rules) = RuleNames =>
              (heap[a].rule7Count = 0 \/ heap[a].rule8Count = 0)
    /\ (Evaluating /\ Names(Before.Rules) = RuleNames) =>
          ~(call.result.m["Rule7"] /\ call.result.m["Rule8"])

\* a sample over 1 deviation from the mean, after one within 1 deviation:
\* rule8 counts it and rule7 puts its counter back to 0
C34_Witness ==
    /\ Evaluating
    /\ Names(Before.Rules) = RuleNames
    /\ Before.rule7Count > 0
    /\ Before.rule8Count = 0
    /\ After.rule7Count = 0
    /\ After.rule8Count > 0

=============================================================================
